---- MODULE Spec2Model ----
(***************************************************************************)
(* Model of src/src/app.ts: the ProjectState store (a lazily created       *)
(* singleton holding Project objects and listener callbacks), the two      *)
(* ProjectList views that subscribe to it, and the evaluation of the       *)
(* script from top to bottom.                                              *)
(*                                                                         *)
(* JavaScript objects and arrays are reference values, so the model keeps  *)
(* three heaps: `heap` (Project objects), `arrays` (Project[] arrays) and  *)
(* `stores` (ProjectState objects).  A reference is an index into its      *)
(* heap; 0 stands for undefined.  The document is modelled by what the     *)
(* components ask of it: which template ids resolve, whether the host      *)
(* "app" exists, and the children of "app" and of each list.               *)
(***************************************************************************)
EXTENDS Integers, Sequences, FiniteSets, TLC

VARIABLES
    pc,            \* position of the top-level script: which statement runs next
    instance,      \* ProjectState.instance (static field), Undefined until set
    projectState,  \* the const of line 66
    stores,        \* heap of ProjectState objects: listeners and projects
    heap,          \* heap of Project objects
    arrays,        \* heap of Project[] arrays (sequences of Project references)
    views,         \* the ProjectList objects, by type, each with its <ul>
    dom,           \* the document: templates, the host "app" and its children
    life,          \* history: per class, constructions and lifecycle calls made
    fields,        \* the values of the form's inputs: title, description, people
    lastSubmit,    \* history: the latest form submission and its outcome
    validation,    \* a call of validate: its argument and, once made, its result
    returned,      \* history: every value returned by getInstance so far
    accesses,      \* history: number of getInstance calls so far
    calls,         \* history: every listener invocation, with what it received
    lastAdd        \* history: the latest addProject call and its outcome

vars == <<pc, instance, projectState, stores, heap, arrays, views, dom, life,
          fields, lastSubmit, validation, returned, accesses, calls, lastAdd>>

formVars == <<fields, lastSubmit, validation>>

----------------------------------------------------------------------------
(* Bounds of the exploration *)

MaxAdds == 2        \* addProject calls
MaxExt == 2         \* listeners registered from outside the two views
MaxAccess == 2      \* getInstance calls
MaxRandom == 2      \* distinct outcomes of Math.random()

(* Program constants *)

Active == 0         \* ProjectStatus.Active
Finished == 1       \* ProjectStatus.Finished
Undefined == 0      \* undefined / no reference
NaN == -1           \* the number NaN, kept apart from the numbers explored

(* The argument triples (title, description, numberOfPeople) explored *)
Arguments == {<<"Build API", "Design the service", 3>>}
ViewTypes == {"active", "finished "}

(* What a callback registered from outside does with the array it is given *)
ExtBehaviours == {"read", "reversePop", "setStatus", "throw", "register"}

----------------------------------------------------------------------------
(* Small helpers *)

Range(f) == {f[i] : i \in DOMAIN f}

Reverse(q) == [i \in 1..Len(q) |-> q[Len(q) + 1 - i]]

Front(q) == SubSeq(q, 1, Len(q) - 1)

IsPrefix(p, q) == Len(p) <= Len(q) /\ SubSeq(q, 1, Len(p)) = p

(* Number.prototype.toString for the small non-negative integers used here *)
DigitToString(d) == <<"0", "1", "2", "3", "4", "5", "6", "7", "8", "9">>[d + 1]

(* Math.random() yields a double in [0, 1); the outcomes explored are the  *)
(* tenths 0, 0.1, 0.2, ... and Math.random().toString() is their decimal   *)
(* text.                                                                   *)
RandomOutcomes == 0..(MaxRandom - 1)

RandomToString(k) == IF k = 0 THEN "0" ELSE "0." \o DigitToString(k)

(* Number.prototype.toString, NaN included *)
NumberToString(n) == IF n = NaN THEN "NaN" ELSE DigitToString(n)

(* String.prototype.trim on the texts explored *)
Trim(text) ==
    CASE text = " " -> ""
      [] text = " 3 " -> "3"
      [] OTHER -> text

(* Unary plus on a text: blank is 0, a digit is its number, other text NaN *)
ToNumber(text) ==
    IF Trim(text) = "" THEN 0
    ELSE IF \E n \in 0..9 : DigitToString(n) = Trim(text)
         THEN CHOOSE n \in 0..9 : DigitToString(n) = Trim(text)
         ELSE NaN

(* A value of type string | number, with its typeof *)
Str(text) == [type |-> "string", v |-> text]
Num(n) == [type |-> "number", v |-> n]

(* value.toString() *)
ValueToString(value) ==
    IF value.type = "string" THEN value.v ELSE NumberToString(value.v)

(* a > b and a < b on numbers: false when either is NaN *)
Greater(a, b) == a # NaN /\ b # NaN /\ a > b
Less(a, b) == a # NaN /\ b # NaN /\ a < b

----------------------------------------------------------------------------
(* The mutable program state as one record, so that the body of a handler  *)
(* can be written as a composition of functions.                           *)

(* threw: an error is propagating; done: the number of adds completed.     *)
Cur == [heap |-> heap, arrays |-> arrays, stores |-> stores, views |-> views,
        dom |-> dom, life |-> life, calls |-> calls, threw |-> FALSE,
        done |-> Len(heap)]

Install(s) ==
    /\ heap' = s.heap
    /\ arrays' = s.arrays
    /\ stores' = s.stores
    /\ views' = s.views
    /\ dom' = s.dom
    /\ life' = s.life
    /\ calls' = s.calls

----------------------------------------------------------------------------
(* class Project *)

(* A faulty constructor: title and description exchanged *)
NewProjectSwapped(id, title, description, people, status) ==
    [id |-> id, title |-> description, description |-> title,
     people |-> people, status |-> status]

NewProject(id, title, description, people, status) ==
    [id |-> id, title |-> title, description |-> description,
     people |-> people, status |-> status]

----------------------------------------------------------------------------
(* class State<T> and class ProjectState *)

(* new ProjectState(): `listeners = []` and `projects = []` *)
NewProjectState(s) ==
    [s |-> [s EXCEPT !.arrays = Append(@, <<>>),
                     !.stores = Append(@, [listeners |-> <<>>,
                                           projects |-> Len(s.arrays) + 1])],
     ref |-> Len(s.stores) + 1]

(* A faulty getInstance: it constructs on every access *)
GetInstanceAlwaysNew(inst, s) ==
    LET c == NewProjectState(s)
    IN  [instance |-> c.ref, s |-> c.s, result |-> c.ref]

(* ProjectState.getInstance *)
GetInstanceOp(inst, s) ==
    IF inst # Undefined
    THEN [instance |-> inst, s |-> s, result |-> inst]
    ELSE LET c == NewProjectState(s)
         IN  [instance |-> c.ref, s |-> c.s, result |-> c.ref]

(* The add whose notification pass is running, 0 when none is: addProject *)
(* has created its entity and has not returned                            *)
Pass(s) == IF Len(s.heap) > s.done THEN Len(s.heap) ELSE 0

(* A faulty addListener: it replays the current collection at once *)
AddListenerReplay(s, h, fn, tag) ==
    LET l == [fn |-> fn, tag |-> tag, regAt |-> s.done, pass |-> Pass(s)]
        src == s.stores[h].projects
    IN  [s EXCEPT !.stores[h].listeners = Append(@, l),
                  !.arrays = Append(@, s.arrays[src]),
                  !.calls = Append(@, [add |-> Len(s.heap), store |-> h,
                                       idx |-> Len(s.stores[h].listeners) + 1,
                                       l |-> l, arr |-> Len(s.arrays) + 1,
                                       got |-> s.arrays[src]])]

(* State.addListener: this.listeners.push(listenerFn).  A listener is      *)
(* recorded as what it is (fn: "view" or "ext") and its parameter (tag);   *)
(* regAt and pass are history fields: the number of adds completed before  *)
(* the registration, and the add during whose pass it was made.            *)
AddListenerOp(s, h, fn, tag) ==
    [s EXCEPT !.stores[h].listeners =
                  Append(@, [fn |-> fn, tag |-> tag, regAt |-> s.done,
                             pass |-> Pass(s)])]

(* Array.prototype.unshift, a faulty stand-in for push *)
Unshift(items, x) == <<x>> \o items

(* Array.prototype.push *)
Push(items, x) == Append(items, x)

(* A faulty slice: the array itself instead of a copy *)
SliceAlias(arrs, src) == [arrs |-> arrs, ref |-> src]

(* Array.prototype.slice(): a new array with the same element references *)
Slice(arrs, src) == [arrs |-> Append(arrs, arrs[src]), ref |-> Len(arrs) + 1]

----------------------------------------------------------------------------
(* class Component *)

TemplateIds == {"project-input", "project-list", "single-project"}

(* The document that holds the three templates and the host "app" *)
FullDocument == [templates |-> TemplateIds, hasApp |-> TRUE, app |-> <<>>]

(* One more construction / configure() / renderContent() of class k *)
Counted(s, k, what) == [s EXCEPT !.life[k][what] = @ + 1]

(* The mounted lists whose <ul> carries the id *)
ListWithId(s, id) ==
    {t \in ViewTypes : s.views[t].constructed /\ s.views[t].listId = id}

(* document.getElementById(hostElementId) finds an element *)
Resolves(s, id) == IF id = "app" THEN s.dom.hasApp ELSE ListWithId(s, id) # {}

(* Component.attach: insertAdjacentElement("afterbegin" | "beforeend") *)
Attach(s, hostElementId, insertAtBeginning, element) ==
    IF hostElementId = "app"
    THEN [s EXCEPT !.dom.app = IF insertAtBeginning
                                THEN <<element>> \o @
                                ELSE Append(@, element)]
    ELSE LET t == CHOOSE t \in ListWithId(s, hostElementId) : TRUE
         IN  [s EXCEPT !.views[t].rendered = IF insertAtBeginning
                                             THEN <<element>> \o @
                                             ELSE Append(@, element)]

(* A faulty constructor: an unresolved template or host is passed over and *)
(* the construction goes on                                                *)
ComponentUnchecked(s, templateId, hostElementId, insertAtStart, element) ==
    IF Resolves(s, hostElementId)
    THEN Attach(s, hostElementId, insertAtStart, element)
    ELSE s

(* Component.constructor: templateElement.content of a missing template    *)
(* and insertAdjacentElement on a missing host are TypeErrors; the clone   *)
(* is attached only after both lookups                                     *)
Component(s, templateId, hostElementId, insertAtStart, element) ==
    IF templateId \notin s.dom.templates \/ ~Resolves(s, hostElementId)
    THEN [s EXCEPT !.threw = TRUE]
    ELSE Attach(s, hostElementId, insertAtStart, element)

----------------------------------------------------------------------------
(* class ProjectItem *)

(* get persons() *)
Persons(project) ==
    IF project.people = 1
    THEN "1 Person"
    ELSE NumberToString(project.people) \o " persons"

(* The <li> of a project as renderContent leaves it: the element id and    *)
(* the three texts                                                         *)
ProjectItem(project) ==
    [id |-> project.id,
     h2 |-> project.title,
     h3 |-> Persons(project) \o "Persons assingend.",
     p  |-> project.description]

(* new ProjectItem(hostId, project): super(), configure(), renderContent() *)
NewProjectItem(s, hostId, project) ==
    LET c == Component(s, "single-project", hostId, FALSE, ProjectItem(project))
    IN  IF c.threw
        THEN c
        ELSE Counted(Counted(Counted(c, "ProjectItem", "configure"),
                             "ProjectItem", "renderContent"),
                     "ProjectItem", "constructed")

----------------------------------------------------------------------------
(* class ProjectList *)

(* A faulty filter: the list type is not looked at *)
RelevantProjectsIgnoringType(type, projects, hp) ==
    SelectSeq(projects, LAMBDA r : hp[r].status = Active)

(* The filter of the listener registered in ProjectList.configure *)
RelevantProjects(type, projects, hp) ==
    SelectSeq(projects,
              LAMBDA r : IF type = "active"
                         THEN hp[r].status = Active
                         ELSE hp[r].status = Finished)

(* listEl.innerHTML = "" *)
ClearList(s, type) ==
    LET ts == ListWithId(s, type \o "-projects-list")
    IN  [s EXCEPT !.views = [t \in ViewTypes |->
                                IF t \in ts THEN [@[t] EXCEPT !.rendered = <<>>]
                                ELSE @[t]]]

(* for (const prjItem of this.aasignedProjects) new ProjectItem(ul.id, prjItem) *)
RECURSIVE RenderItems(_, _, _)
RenderItems(s, type, i) ==
    IF s.threw \/ i > Len(s.views[type].aasignedProjects)
    THEN s
    ELSE RenderItems(NewProjectItem(s, s.views[type].listId,
                                    s.heap[s.views[type].aasignedProjects[i]]),
                     type, i + 1)

(* A faulty renderProjects: the list is not emptied first *)
RenderProjectsNoClear(s, type) == RenderItems(s, type, 1)

(* ProjectList.renderProjects: empty the list, then one item per project *)
RenderProjects(s, type) == RenderItems(ClearList(s, type), type, 1)

(* The listener registered in ProjectList.configure, called with array a *)
ViewListener(s, type, a) ==
    LET relevantProjects == RelevantProjects(type, s.arrays[a], s.heap)
    IN  RenderProjects([s EXCEPT !.views[type].aasignedProjects = relevantProjects],
                       type)

(* String.prototype.toUpperCase on the two type strings *)
ToUpperCase(type) == IF type = "active" THEN "ACTIVE" ELSE "FINISHED "

(* ProjectList.configure: projectState.addListener(...) *)
ProjectListConfigure(s, type, store) ==
    Counted(AddListenerOp(s, store, "view", type), "ProjectList", "configure")

(* ProjectList.renderContent: the id of the <ul> and the heading *)
ProjectListRenderContent(s, type) ==
    Counted([s EXCEPT !.views[type].listId = type \o "-projects-list",
                      !.views[type].heading = ToUpperCase(type) \o "Projects"],
            "ProjectList", "renderContent")

(* A faulty constructor: configure() is called twice *)
NewProjectListConfiguringTwice(s, type, store) ==
    LET c == Component(s, "project-list", "app", FALSE, type \o "-projects")
        mounted == [c EXCEPT !.views[type] =
                        [constructed |-> TRUE,
                         elementId |-> type \o "-projects",
                         aasignedProjects |-> <<>>,
                         rendered |-> <<>>,
                         listId |-> "",
                         heading |-> ""]]
    IN  IF c.threw
        THEN c
        ELSE Counted(ProjectListRenderContent(
                         ProjectListConfigure(
                             ProjectListConfigure(mounted, type, store),
                             type, store), type),
                     "ProjectList", "constructed")

(* new ProjectList(type): super(), aasignedProjects = [], configure(),     *)
(* renderContent()                                                         *)
NewProjectList(s, type, store) ==
    LET c == Component(s, "project-list", "app", FALSE, type \o "-projects")
        mounted == [c EXCEPT !.views[type] =
                        [constructed |-> TRUE,
                         elementId |-> type \o "-projects",
                         aasignedProjects |-> <<>>,
                         rendered |-> <<>>,
                         listId |-> "",
                         heading |-> ""]]
    IN  IF c.threw
        THEN c
        ELSE Counted(ProjectListRenderContent(
                         ProjectListConfigure(mounted, type, store), type),
                     "ProjectList", "constructed")

----------------------------------------------------------------------------
(* class ProjectInput *)

(* ProjectInput.configure: the submit handler is bound to the form *)
ProjectInputConfigure(s) == Counted(s, "ProjectInput", "configure")

(* new ProjectInput(): super(), the three inputs, configure(); the         *)
(* constructor does not call renderContent()                               *)
NewProjectInput(s) ==
    LET c == Component(s, "project-input", "app", TRUE, "user-input")
    IN  IF c.threw
        THEN c
        ELSE Counted(ProjectInputConfigure(c), "ProjectInput", "constructed")

----------------------------------------------------------------------------
(* interface Validatable and validate.  A Validatable is a record whose    *)
(* optional properties are present or not: `x != null` is "x" in DOMAIN.   *)

Has(v, prop) == prop \in DOMAIN v

(* A faulty validate: each rule overwrites isValid instead of and-ing *)
ValidateOverwriting(validatableInput) ==
    LET value == validatableInput.value
        v0 == TRUE
        v1 == IF Has(validatableInput, "required") /\ validatableInput.required
              THEN Len(Trim(ValueToString(value))) # 0
              ELSE v0
        v2 == IF Has(validatableInput, "minLength") /\ value.type = "string"
              THEN Len(value.v) > validatableInput.minLength
              ELSE v1
        v3 == IF Has(validatableInput, "maxLength") /\ value.type = "string"
              THEN Len(value.v) < validatableInput.maxLength
              ELSE v2
        v4 == IF Has(validatableInput, "min") /\ value.type = "number"
              THEN Greater(value.v, validatableInput.min)
              ELSE v3
        v5 == IF Has(validatableInput, "max") /\ value.type = "number"
              THEN Less(value.v, validatableInput.max)
              ELSE v4
    IN  v5

(* validate: isValid after each of the five if statements *)
Validate(validatableInput) ==
    LET value == validatableInput.value
        v0 == TRUE
        v1 == IF Has(validatableInput, "required") /\ validatableInput.required
              THEN v0 /\ Len(Trim(ValueToString(value))) # 0
              ELSE v0
        v2 == IF Has(validatableInput, "minLength") /\ value.type = "string"
              THEN v1 /\ Len(value.v) > validatableInput.minLength
              ELSE v1
        v3 == IF Has(validatableInput, "maxLength") /\ value.type = "string"
              THEN v2 /\ Len(value.v) < validatableInput.maxLength
              ELSE v2
        v4 == IF Has(validatableInput, "min") /\ value.type = "number"
              THEN v3 /\ Greater(value.v, validatableInput.min)
              ELSE v3
        v5 == IF Has(validatableInput, "max") /\ value.type = "number"
              THEN v4 /\ Less(value.v, validatableInput.max)
              ELSE v4
    IN  v5

----------------------------------------------------------------------------
(* class ProjectInput: gatherUserInput and submitHandler *)

TitleValidatable(enteredTitle) ==
    [value |-> Str(enteredTitle), required |-> TRUE]

DescriptionValidatable(enteredDescription) ==
    [value |-> Str(enteredDescription), required |-> TRUE, minLength |-> 5]

(* A faulty Validatable: the entered text is made a number before validating *)
PeopleValidatableCoerced(enteredPeople) ==
    [value |-> Num(ToNumber(enteredPeople)), required |-> TRUE,
     max |-> 5, min |-> 2]

(* peopleValidatable: the value is the text of the input *)
PeopleValidatable(enteredPeople) ==
    [value |-> Str(enteredPeople), required |-> TRUE, max |-> 5, min |-> 2]

(* The three results of validate for the entered texts *)
Validities(entered) ==
    <<Validate(TitleValidatable(entered[1])),
      Validate(DescriptionValidatable(entered[2])),
      Validate(PeopleValidatable(entered[3]))>>

(* A faulty gatherUserInput: alert when a field is invalid, the tuple when *)
(* all are valid                                                           *)
GatherUserInputUninverted(entered) ==
    LET valid == Validities(entered)
    IN  IF ~(valid[1] /\ valid[2] /\ valid[3])
        THEN [alerted |-> TRUE, isArray |-> FALSE, userInput |-> <<>>]
        ELSE [alerted |-> FALSE, isArray |-> TRUE,
              userInput |-> <<entered[1], entered[2], ToNumber(entered[3])>>]

(* ProjectInput.gatherUserInput: alert("try again :(") and no value when   *)
(* all three validate, else the tuple [title, description, +people]        *)
GatherUserInput(entered) ==
    LET valid == Validities(entered)
    IN  IF valid[1] /\ valid[2] /\ valid[3]
        THEN [alerted |-> TRUE, isArray |-> FALSE, userInput |-> <<>>]
        ELSE [alerted |-> FALSE, isArray |-> TRUE,
              userInput |-> <<entered[1], entered[2], ToNumber(entered[3])>>]

(* ProjectInput.clearInputs *)
ClearInputs == <<"", "", "">>

----------------------------------------------------------------------------
(* Listeners registered from outside the views.  Each receives the array a *)
(* and may write to it or to the objects it refers to ("reversePop",       *)
(* "setStatus"), fail ("throw": it throws when given an odd number of      *)
(* projects) or register one more callback with the store that called it   *)
(* ("register").                                                           *)

ExtListener(s, h, behaviour, a) ==
    LET items == s.arrays[a]
    IN  CASE behaviour = "read" -> s
          [] behaviour = "reversePop" ->
                IF items = <<>> THEN s
                ELSE [s EXCEPT !.arrays[a] = Front(Reverse(items))]
          [] behaviour = "setStatus" ->
                IF items = <<>> THEN s
                ELSE [s EXCEPT !.heap[items[1]].status = Finished]
          [] behaviour = "throw" ->
                IF Len(items) % 2 = 1 THEN [s EXCEPT !.threw = TRUE] ELSE s
          [] behaviour = "register" -> AddListenerOp(s, h, "ext", "read")

(* A faulty loop body: it skips a callback already invoked in this pass *)
CallListenerDedup(s, h, i) ==
    LET l == s.stores[h].listeners[i]
        copy == Slice(s.arrays, s.stores[h].projects)
        given == [s EXCEPT !.arrays = copy.arrs,
                           !.calls = Append(@, [add |-> Len(s.heap), store |-> h,
                                                idx |-> i, l |-> l,
                                                arr |-> copy.ref,
                                                got |-> copy.arrs[copy.ref]])]
    IN  IF \E j \in 1..(i - 1) : /\ s.stores[h].listeners[j].fn = l.fn
                                /\ s.stores[h].listeners[j].tag = l.tag
        THEN s
        ELSE IF l.fn = "view"
             THEN ViewListener(given, l.tag, copy.ref)
             ELSE ExtListener(given, h, l.tag, copy.ref)

(* One iteration of the loop of addProject: listenerFn(this.projects.slice()) *)
CallListener(s, h, i) ==
    LET l == s.stores[h].listeners[i]
        copy == Slice(s.arrays, s.stores[h].projects)
        given == [s EXCEPT !.arrays = copy.arrs,
                           !.calls = Append(@, [add |-> Len(s.heap), store |-> h,
                                                idx |-> i, l |-> l,
                                                arr |-> copy.ref,
                                                got |-> copy.arrs[copy.ref]])]
    IN  IF l.fn = "view"
        THEN ViewListener(given, l.tag, copy.ref)
        ELSE ExtListener(given, h, l.tag, copy.ref)

(* A faulty loop: an error is kept until every callback has been invoked *)
RECURSIVE NotifyDeferring(_, _, _)
NotifyDeferring(s, h, i) ==
    IF i > Len(s.stores[h].listeners)
    THEN s
    ELSE LET c == CallListener([s EXCEPT !.threw = FALSE], h, i)
         IN  NotifyDeferring([c EXCEPT !.threw = s.threw \/ c.threw], h, i + 1)

(* A faulty loop: it iterates the callbacks registered before the pass *)
RECURSIVE NotifyExisting(_, _, _)
NotifyExisting(s, h, i) ==
    IF \/ s.threw
       \/ i > Len(SelectSeq(s.stores[h].listeners,
                            LAMBDA l : l.pass # Len(s.heap)))
    THEN s
    ELSE NotifyExisting(CallListener(s, h, i), h, i + 1)

(* for (const listenerFn of this.listeners): iterates the live array, so a *)
(* callback pushed during the pass is reached, and stops when a listener   *)
(* throws                                                                  *)
RECURSIVE Notify(_, _, _)
Notify(s, h, i) ==
    IF s.threw \/ i > Len(s.stores[h].listeners)
    THEN s
    ELSE Notify(CallListener(s, h, i), h, i + 1)

(* ProjectState.addProject *)
AddProjectOp(s, h, title, description, numberOfPeople, random) ==
    LET newProject == NewProject(RandomToString(random), title, description,
                                 numberOfPeople, Active)
        ref == Len(s.heap) + 1
        pushed == [s EXCEPT !.heap = Append(@, newProject),
                            !.arrays[s.stores[h].projects] = Push(@, ref)]
    IN  Notify(pushed, h, 1)

----------------------------------------------------------------------------
(* Initial state: before the script runs *)

NoView == [constructed |-> FALSE, elementId |-> "", aasignedProjects |-> <<>>,
           rendered |-> <<>>, listId |-> "", heading |-> ""]

NoAdd == [n |-> 0, store |-> Undefined, ref |-> Undefined, title |-> "",
          description |-> "", people |-> 0, threw |-> FALSE,
          result |-> Undefined]

Classes == {"ProjectInput", "ProjectList", "ProjectItem"}

NoLife == [k \in Classes |-> [constructed |-> 0, configure |-> 0,
                              renderContent |-> 0]]

NoSubmit == [made |-> FALSE, entered |-> ClearInputs,
             valid |-> <<FALSE, FALSE, FALSE>>, alerted |-> FALSE,
             before |-> 0, addReturned |-> FALSE]

NoValidation == [input |-> TitleValidatable(""), made |-> FALSE,
                 result |-> FALSE]

InitProgram ==
    /\ pc = "line66"
    /\ instance = Undefined
    /\ projectState = Undefined
    /\ stores = <<>>
    /\ heap = <<>>
    /\ arrays = <<>>
    /\ views = [t \in ViewTypes |-> NoView]
    /\ life = NoLife
    /\ returned = {}
    /\ accesses = 0
    /\ calls = <<>>
    /\ lastAdd = NoAdd
    /\ fields = ClearInputs
    /\ lastSubmit = NoSubmit

Init == InitProgram /\ dom = FullDocument /\ validation = NoValidation

----------------------------------------------------------------------------
(* The top-level statements of the script, in order *)

(* line 66: const projectState = ProjectState.getInstance() *)
LoadProjectState ==
    /\ pc = "line66"
    /\ LET g == GetInstanceOp(instance, Cur)
       IN  /\ instance' = g.instance
           /\ projectState' = g.result
           /\ returned' = returned \cup {g.result}
           /\ Install(g.s)
    /\ accesses' = accesses + 1
    /\ pc' = "line333"
    /\ UNCHANGED <<lastAdd, formVars>>

(* An error that leaves a top-level statement uncaught ends the script *)
After(s, next) == IF s.threw THEN "crashed" ELSE next

(* line 333: const prjInput = new ProjectInput() *)
LoadProjectInput ==
    /\ pc = "line333"
    /\ LET made == NewProjectInput(Cur)
       IN  /\ Install(made)
           /\ pc' = After(made, "line334")
    /\ UNCHANGED <<instance, projectState, returned, accesses, lastAdd, formVars>>

(* line 334: const activeProjectList = new ProjectList("active") *)
LoadActiveProjectList ==
    /\ pc = "line334"
    /\ LET made == NewProjectList(Cur, "active", projectState)
       IN  /\ Install(made)
           /\ pc' = After(made, "line335")
    /\ UNCHANGED <<instance, projectState, returned, accesses, lastAdd, formVars>>

(* line 335: const finishedProjectList = new ProjectList("finished ") *)
LoadFinishedProjectList ==
    /\ pc = "line335"
    /\ LET made == NewProjectList(Cur, "finished ", projectState)
       IN  /\ Install(made)
           /\ pc' = After(made, "run")
    /\ UNCHANGED <<instance, projectState, returned, accesses, lastAdd, formVars>>

----------------------------------------------------------------------------
(* Calls made once the script has run *)

(* ProjectState.getInstance() called again *)
GetInstance ==
    /\ pc = "run"
    /\ accesses < MaxAccess
    /\ LET g == GetInstanceOp(instance, Cur)
       IN  /\ instance' = g.instance
           /\ returned' = returned \cup {g.result}
           /\ Install(g.s)
    /\ accesses' = accesses + 1
    /\ UNCHANGED <<pc, projectState, lastAdd, formVars>>

NumExt(h) == Len(SelectSeq(stores[h].listeners, LAMBDA l : l.fn = "ext"))

(* addListener(callback) on a store obtained from getInstance *)
AddListener ==
    /\ pc = "run"
    /\ \E h \in returned, b \in ExtBehaviours :
          /\ NumExt(h) < MaxExt
          /\ Install(AddListenerOp(Cur, h, "ext", b))
    /\ UNCHANGED <<pc, instance, projectState, returned, accesses, lastAdd,
                   formVars>>

(* addProject(title, description, numberOfPeople) on a store obtained from *)
(* getInstance; it returns nothing                                         *)
AddProject ==
    /\ pc = "run"
    /\ Len(heap) < MaxAdds
    /\ \E h \in returned, args \in Arguments, random \in RandomOutcomes :
          LET title == args[1]
              description == args[2]
              people == args[3]
              done == AddProjectOp(Cur, h, title, description, people, random)
          IN  /\ Install(done)
              /\ lastAdd' = [n |-> Len(heap) + 1, store |-> h,
                             ref |-> Len(heap) + 1, title |-> title,
                             description |-> description, people |-> people,
                             threw |-> done.threw, result |-> Undefined]
    /\ UNCHANGED <<pc, instance, projectState, returned, accesses, formVars>>

Next ==
    \/ LoadProjectState
    \/ LoadProjectInput
    \/ LoadActiveProjectList
    \/ LoadFinishedProjectList
    \/ GetInstance
    \/ AddListener
    \/ AddProject

Spec == Init /\ [][Next]_vars

----------------------------------------------------------------------------
(* The form: the user fills the three inputs and submits *)

(* The texts entered (title, description, people): three entries that     *)
(* pass validate in every field and three that fail it in exactly one      *)
FormEntries == {<<"Docs", "Design the service", "3">>,
                <<"Docs", "Design the service", "7">>,
                <<"Docs", "Design the service", "abc">>,
                <<"Docs", "Design the service", " ">>,
                <<"", "Design the service", "3">>,
                <<"Docs", "short", "abc">>}

(* ProjectInput.submitHandler, for the texts the user has entered *)
Submit ==
    /\ pc = "run"
    /\ \E entered \in FormEntries, random \in RandomOutcomes :
          LET gathered == GatherUserInput(entered)
              userInput == gathered.userInput
              done == AddProjectOp(Cur, projectState, userInput[1],
                                   userInput[2], userInput[3], random)
              submitted == [made |-> TRUE, entered |-> entered,
                            valid |-> Validities(entered),
                            alerted |-> gathered.alerted,
                            before |-> Len(heap), addReturned |-> FALSE]
          IN  IF gathered.isArray
              THEN /\ Len(heap) < MaxAdds
                   /\ Install(done)
                   /\ lastAdd' = [n |-> Len(heap) + 1, store |-> projectState,
                                  ref |-> Len(heap) + 1, title |-> userInput[1],
                                  description |-> userInput[2],
                                  people |-> userInput[3],
                                  threw |-> done.threw, result |-> Undefined]
                   /\ fields' = IF done.threw THEN entered ELSE ClearInputs
                   /\ lastSubmit' = [submitted EXCEPT !.addReturned = ~done.threw]
              ELSE /\ fields' = entered
                   /\ lastSubmit' = submitted
                   /\ UNCHANGED <<stores, heap, arrays, views, dom, life, calls,
                                  lastAdd>>
    /\ UNCHANGED <<pc, instance, projectState, returned, accesses, validation>>

NextForm ==
    \/ LoadProjectState
    \/ LoadProjectInput
    \/ LoadActiveProjectList
    \/ LoadFinishedProjectList
    \/ Submit

SpecForm == Init /\ [][NextForm]_vars

----------------------------------------------------------------------------
(* The script and the form in a document that may lack a template or the   *)
(* host "app"                                                              *)

Documents ==
    {[templates |-> present, hasApp |-> hasApp, app |-> <<>>] :
        present \in SUBSET TemplateIds, hasApp \in BOOLEAN}

InitDoc == InitProgram /\ dom \in Documents /\ validation = NoValidation

SpecDoc == InitDoc /\ [][NextForm]_vars

----------------------------------------------------------------------------
(* validate called on its own, for each Validatable of a small family *)

ValidatableValues ==
    {Str(text) : text \in {"", " ", "abc", "abcde", "abcdef"}}
        \cup {Num(n) : n \in {0, 2, 3, 5, 6, NaN}}

OptionalProperties == {"required", "minLength", "maxLength", "min", "max"}

Validatables ==
    {[prop \in present \cup {"value"} |-> full[prop]] :
        full \in [value : ValidatableValues, required : BOOLEAN,
                  minLength : {0, 5}, maxLength : {5}, min : {2}, max : {5}],
        present \in SUBSET OptionalProperties}

InitValidate ==
    /\ InitProgram
    /\ dom = FullDocument
    /\ validation \in {[input |-> v, made |-> FALSE, result |-> FALSE] :
                           v \in Validatables}

ValidateCall ==
    /\ ~validation.made
    /\ validation' = [validation EXCEPT !.made = TRUE,
                                        !.result = Validate(validation.input)]
    /\ UNCHANGED <<pc, instance, projectState, stores, heap, arrays, views, dom,
                   life, fields, lastSubmit, returned, accesses, calls, lastAdd>>

NextValidate == ValidateCall

SpecValidate == InitValidate /\ [][NextValidate]_vars

----------------------------------------------------------------------------
(* Vocabulary of the properties *)

(* The collection held by store h *)
StoreColl(h) == arrays[stores[h].projects]

(* The invocations made by add number n on store h, in the order made *)
CallsOf(n, h) == SelectSeq(calls, LAMBDA c : c.add = n /\ c.store = h)

(* The registrations of store h that add number n had to invoke: those     *)
(* that existed when it was called and those made during its pass          *)
ListenersAt(n, h) == SelectSeq(stores[h].listeners, LAMBDA l : l.regAt < n)

(* The invocations of the i-th registration of store h *)
CallsTo(h, i) == SelectSeq(calls, LAMBDA c : c.store = h /\ c.idx = i)

Returned == lastAdd.n > 0 /\ ~lastAdd.threw

(* What an array holds after the listener that received it has run *)
AfterOwn(l, got) ==
    IF l.fn = "ext" /\ l.tag = "reversePop" THEN Front(Reverse(got))
    ELSE got

----------------------------------------------------------------------------
(* C1: an add that does not fail invokes every registration that existed   *)
(* when it was called, once each and in registration order (so a callback  *)
(* registered twice is invoked twice), and each invocation is given a      *)
(* collection that contains the entity just added.                         *)
C1_NotificationCompleteness ==
    Returned =>
        LET cs == CallsOf(lastAdd.n, lastAdd.store)
            ls == ListenersAt(lastAdd.n, lastAdd.store)
        IN  /\ Len(cs) = Len(ls)
            /\ \A i \in 1..Len(cs) :
                  /\ cs[i].idx = i
                  /\ cs[i].l = ls[i]
                  /\ lastAdd.ref \in Range(cs[i].got)

(* An add has returned on a store holding the two views and one callback   *)
(* registered twice after them.                                            *)
C1_Witness ==
    /\ Returned
    /\ LET ls == ListenersAt(lastAdd.n, lastAdd.store)
       IN  /\ Len(ls) = 4
           /\ ls[3].fn = "ext"
           /\ ls[3].tag = ls[4].tag
           /\ ls[3].tag = "read"
    /\ Len(CallsOf(lastAdd.n, lastAdd.store)) = 4

----------------------------------------------------------------------------
(* C2: once an add has returned, each of the two lists holds exactly the   *)
(* store's collection filtered by the list's status, in collection order.  *)
C2_ViewsReflectStore ==
    (pc = "run" /\ Returned) =>
        \A t \in ViewTypes :
            views[t].aasignedProjects =
                RelevantProjects(t, StoreColl(projectState), heap)

----------------------------------------------------------------------------
(* C3: every step leaves each store's collection as it was, except that an *)
(* add appends exactly the one new entity at the end of the collection of  *)
(* the store it was called on; and of any two collections handed to        *)
(* listeners of a store, the earlier one is a prefix of the later one.     *)
SnapshotsExtend ==
    \A i, j \in 1..Len(calls) :
        (i < j /\ calls[i].store = calls[j].store)
            => IsPrefix(calls[i].got, calls[j].got)

C3_AppendOnly ==
    [][ /\ \A h \in 1..Len(stores) :
              IF lastAdd'.n # lastAdd.n /\ lastAdd'.store = h
              THEN arrays'[stores'[h].projects]
                       = Append(StoreColl(h), lastAdd'.ref)
              ELSE arrays'[stores'[h].projects] = StoreColl(h)
        /\ SnapshotsExtend' ]_vars

(* Two adds with the same arguments and even the same id: both entities    *)
(* are kept, in the order added.                                           *)
C3_Witness ==
    /\ lastAdd.n = 2
    /\ StoreColl(lastAdd.store) = <<1, 2>>
    /\ heap[1].title = heap[2].title
    /\ heap[1].id = heap[2].id
    /\ Len(calls) >= 4

----------------------------------------------------------------------------
(* C4: the ids of the entities in a store's collection are pairwise        *)
(* distinct.                                                               *)
C4_IdsDistinct ==
    \A h \in 1..Len(stores) :
        \A i, j \in 1..Len(StoreColl(h)) :
            i # j => heap[StoreColl(h)[i]].id # heap[StoreColl(h)[j]].id

----------------------------------------------------------------------------
(* C5: whatever a listener does to the array it was given, the store's     *)
(* collection stays the entities added, in order; every listener is given  *)
(* the whole collection as the store holds it, in an array of its own; and *)
(* an array once given changes only by what its own receiver did to it,    *)
(* not by other listeners and not by later adds.                           *)
C5_SnapshotIndependence ==
    /\ instance # Undefined =>
           StoreColl(instance) = [i \in 1..Len(heap) |-> i]
    /\ \A k \in 1..Len(calls) :
           /\ calls[k].got = [i \in 1..calls[k].add |-> i]
           /\ arrays[calls[k].arr] = AfterOwn(calls[k].l, calls[k].got)
           /\ calls[k].arr # stores[calls[k].store].projects
           /\ \A m \in 1..Len(calls) : m # k => calls[m].arr # calls[k].arr

(* During the first add a listener has reversed its array and removed an   *)
(* element of it and a listener registered after it was notified in that   *)
(* pass; a second add has been made since, and its array was treated the   *)
(* same way.                                                               *)
C5_Witness ==
    /\ lastAdd.n = 2
    /\ \E k, m \in 1..Len(calls) :
          /\ calls[k].add = 1 /\ calls[m].add = 1
          /\ calls[k].l.tag = "reversePop"
          /\ calls[k].idx < calls[m].idx
          /\ arrays[calls[k].arr] = <<>>
          /\ arrays[calls[m].arr] = <<1>>
    /\ \E k \in 1..Len(calls) :
          /\ calls[k].add = 2
          /\ calls[k].l.tag = "reversePop"
          /\ arrays[calls[k].arr] = <<2>>

----------------------------------------------------------------------------
(* C6: no step changes a field of an entity that exists, and the entity    *)
(* an add creates is, when the add is over, as the store created it; so    *)
(* nothing a listener does to what it was given reaches the entities of    *)
(* the store.                                                              *)
C6_EntitiesUnchanged ==
    [][ /\ \A r \in 1..Len(heap) : heap'[r] = heap[r]
        /\ Len(heap') > Len(heap) =>
              /\ heap'[Len(heap')].status = Active
              /\ heap'[Len(heap')].title = lastAdd'.title ]_vars

----------------------------------------------------------------------------
----------------------------------------------------------------------------
(* C8: a step that registers a listener invokes nothing and leaves every   *)
(* collection and entity as they were; a listener registered after k adds  *)
(* is never invoked by the first k adds, an add number k+1 that does not   *)
(* fail invokes it, and what it is then given is the whole collection of   *)
(* k+1 entities.                                                           *)
NoReplay ==
    \A h \in 1..Len(stores) :
        \A i \in 1..Len(stores[h].listeners) :
            LET k == stores[h].listeners[i].regAt
                cs == CallsTo(h, i)
            IN  /\ \A m \in 1..Len(cs) :
                      /\ cs[m].add > k
                      /\ cs[m].add = k + 1 =>
                            /\ Len(cs[m].got) = k + 1
                            /\ cs[m].got = SubSeq(StoreColl(h), 1, k + 1)
                /\ (Returned /\ lastAdd.store = h /\ lastAdd.n = k + 1) =>
                      (Len(cs) = 1 /\ cs[1].add = k + 1)

C8_NoInitialReplay ==
    [][ /\ ( /\ lastAdd'.n = lastAdd.n
             /\ \E h \in 1..Len(stores) :
                   Len(stores'[h].listeners) > Len(stores[h].listeners) )
           => /\ calls' = calls
              /\ heap' = heap
              /\ \A h \in 1..Len(stores) :
                    arrays'[stores'[h].projects] = StoreColl(h)
        /\ NoReplay' ]_vars

(* A listener registered after one add has been invoked by the second add  *)
(* and by nothing else.                                                    *)
C8_Witness ==
    /\ Returned
    /\ lastAdd.n = 2
    /\ \E i \in 1..Len(stores[lastAdd.store].listeners) :
          /\ stores[lastAdd.store].listeners[i].regAt = 1
          /\ Len(CallsTo(lastAdd.store, i)) = 1
          /\ CallsTo(lastAdd.store, i)[1].got = <<1, 2>>

----------------------------------------------------------------------------
(* C9: no store exists before the first access; the first access creates   *)
(* one and every access returns that one, so there is never a second store *)
(* and the script's projectState is the store every caller gets.           *)
C9_LazySingleton ==
    /\ Len(stores) <= 1
    /\ accesses = 0 => (Len(stores) = 0 /\ instance = Undefined)
    /\ accesses > 0 => (Len(stores) = 1 /\ instance = 1 /\ returned = {instance})
    /\ pc # "line66" => projectState = instance

(* Several accesses, and a listener and an entity in the one store *)
C9_Witness ==
    /\ accesses >= 2
    /\ Len(stores) = 1
    /\ Len(StoreColl(1)) >= 1
    /\ Len(stores[1].listeners) >= 3

----------------------------------------------------------------------------
(* C10: after an add, every entity of the collection the two lists were    *)
(* given is in the subset of exactly one of them, and the subsets hold     *)
(* nothing else.                                                           *)
InSubset(t, r) == r \in Range(views[t].aasignedProjects)

C10_FilterPartition ==
    lastAdd.n > 0 =>
        /\ \A r \in Range(StoreColl(lastAdd.store)) :
              InSubset("active", r) # InSubset("finished ", r)
        /\ \A t \in ViewTypes :
              Range(views[t].aasignedProjects) \subseteq Range(StoreColl(lastAdd.store))

(* Both subsets are non-empty: one entity is Active and one is Finished *)
C10_Witness ==
    /\ lastAdd.n = 2
    /\ views["active"].aasignedProjects = <<2>>
    /\ views["finished "].aasignedProjects = <<1>>

----------------------------------------------------------------------------
(* C11: in every state each list's <ul> holds exactly one item per entity  *)
(* of the list's subset, in subset order and with that entity's id and     *)
(* texts, and nothing left from an earlier pass; after the first add on    *)
(* the fresh store the active list shows one item and the finished list    *)
(* none.                                                                   *)
C11_FullRebuild ==
    /\ \A t \in ViewTypes :
          /\ Len(views[t].rendered) = Len(views[t].aasignedProjects)
          /\ \A i \in 1..Len(views[t].rendered) :
                views[t].rendered[i]
                    = ProjectItem(heap[views[t].aasignedProjects[i]])
    /\ (pc = "run" /\ lastAdd.n = 1) =>
          /\ Len(views["active"].rendered) = 1
          /\ Len(views["finished "].rendered) = 0

(* The second add has rebuilt the active list, which showed one item       *)
(* before, with two.                                                       *)
C11_Witness ==
    /\ lastAdd.n = 2
    /\ Len(views["active"].rendered) = 2
    /\ views["active"].aasignedProjects = <<1, 2>>
    /\ life["ProjectItem"].constructed = 3

----------------------------------------------------------------------------
(* Vocabulary of the form *)

AllValid(valid) == valid[1] /\ valid[2] /\ valid[3]

(* The entities added since the latest submission began *)
AddedBySubmit == Len(heap) - lastSubmit.before

----------------------------------------------------------------------------
(* C12: whenever at least one of the three fields of a submission fails    *)
(* validate, the failure is reported (alert), add is not called, and the   *)
(* collection and both subsets are as they were.                           *)
C12_InvalidDiscarded ==
    (lastSubmit.made /\ ~AllValid(lastSubmit.valid)) =>
        /\ lastSubmit.alerted
        /\ AddedBySubmit = 0
        /\ lastAdd.n = lastSubmit.before

----------------------------------------------------------------------------
(* C13: on a submission whose three fields all validate, the user is       *)
(* alerted, add is not called and the fields keep what was entered; on any *)
(* other submission there is no alert, add is called exactly once on the   *)
(* store with (title, description, +people), and once add has returned     *)
(* (every registration invoked) the three fields are empty.                *)
C13_LiteralProtocol ==
    lastSubmit.made =>
        IF AllValid(lastSubmit.valid)
        THEN /\ lastSubmit.alerted
             /\ AddedBySubmit = 0
             /\ lastAdd.n = lastSubmit.before
             /\ fields = lastSubmit.entered
        ELSE /\ ~lastSubmit.alerted
             /\ AddedBySubmit = 1
             /\ lastAdd.n = lastSubmit.before + 1
             /\ lastAdd.store = projectState
             /\ <<lastAdd.title, lastAdd.description, lastAdd.people>>
                   = <<lastSubmit.entered[1], lastSubmit.entered[2],
                       ToNumber(lastSubmit.entered[3])>>
             /\ StoreColl(projectState)[Len(heap)] = lastAdd.ref
             /\ lastSubmit.addReturned =>
                   /\ fields = ClearInputs
                   /\ Len(CallsOf(lastAdd.n, projectState))
                         = Len(stores[projectState].listeners)

(* An entry with a title of no characters was submitted: it was added as   *)
(* the store's first entity, with people 3, and the fields were emptied.   *)
C13_Witness ==
    /\ lastSubmit.made
    /\ lastSubmit.entered = <<"", "Design the service", "3">>
    /\ lastSubmit.addReturned
    /\ fields = ClearInputs
    /\ lastAdd.n = 1
    /\ heap[1].title = "" /\ heap[1].people = 3

----------------------------------------------------------------------------
(* C14: validate returns true exactly when every applicable rule holds:    *)
(* required (when set) asks for a trimmed text of at least one character;  *)
(* minLength and maxLength (when present, on a string) ask for a length    *)
(* strictly above / below the bound; min and max (when present, on a       *)
(* number) ask for a value strictly above / below the bound; any other     *)
(* rule is passed over.  An empty string with required set is never valid. *)
C14_ValidateRules ==
    validation.made =>
        LET v == validation.input
            isString == v.value.type = "string"
            isNumber == v.value.type = "number"
            required == (Has(v, "required") /\ v.required) =>
                            Trim(ValueToString(v.value)) # ""
            minLength == (Has(v, "minLength") /\ isString) =>
                            Len(v.value.v) > v.minLength
            maxLength == (Has(v, "maxLength") /\ isString) =>
                            Len(v.value.v) < v.maxLength
            min == (Has(v, "min") /\ isNumber) =>
                            (v.value.v # NaN /\ v.value.v > v.min)
            max == (Has(v, "max") /\ isNumber) =>
                            (v.value.v # NaN /\ v.value.v < v.max)
        IN  /\ validation.result
                  = (required /\ minLength /\ maxLength /\ min /\ max)
            /\ (Has(v, "required") /\ v.required /\ v.value = Str("")) =>
                  ~validation.result

(* validate has answered false for the empty string with required set and  *)
(* a maxLength that the empty string satisfies.                            *)
C14_Witness ==
    /\ validation.made
    /\ validation.input = [value |-> Str(""), required |-> TRUE,
                           maxLength |-> 5]
    /\ ~validation.result

----------------------------------------------------------------------------
(* C20: the people field of a submission is valid exactly when its trimmed *)
(* text has at least one character: min 2 and max 5 are not applied to it. *)
C20_PeopleBoundsNotApplied ==
    lastSubmit.made =>
        lastSubmit.valid[3] = (Trim(lastSubmit.entered[3]) # "")

(* "7" (above max) was submitted and found valid, so the submission was    *)
(* answered with the alert.                                                *)
C20_Witness ==
    /\ lastSubmit.made
    /\ lastSubmit.entered[3] = "7"
    /\ lastSubmit.valid[3]
    /\ lastSubmit.alerted

----------------------------------------------------------------------------
(* C16: in every state every entity has status Active, the finished list's *)
(* subset is empty and, once an add has returned, the active list's subset *)
(* is the whole collection; the entity an add creates carries the          *)
(* arguments of the add.                                                   *)
C16_AlwaysActive ==
    /\ \A r \in 1..Len(heap) : heap[r].status = Active
    /\ views["finished "].aasignedProjects = <<>>
    /\ (pc = "run" /\ Returned) =>
          /\ views["active"].aasignedProjects = StoreColl(projectState)
          /\ heap[lastAdd.ref].title = lastAdd.title
          /\ heap[lastAdd.ref].description = lastAdd.description
          /\ heap[lastAdd.ref].people = lastAdd.people

----------------------------------------------------------------------------
(* The registrations the lists have made with the script's store *)
ViewRegistrations ==
    IF projectState = Undefined THEN <<>>
    ELSE SelectSeq(stores[projectState].listeners, LAMBDA l : l.fn = "view")

(* C17, as stated: every construction of a ProjectItem, ProjectList or      *)
(* ProjectInput has called configure once and renderContent once; each     *)
(* list has registered one listener, and once the script has run the       *)
(* lists' registrations are two, active first.                             *)
C17_ConfigureAndRenderOnce ==
    /\ \A k \in Classes :
          /\ life[k].configure = life[k].constructed
          /\ life[k].renderContent = life[k].constructed
    /\ Len(ViewRegistrations) = life["ProjectList"].constructed
    /\ pc = "run" =>
          /\ Len(ViewRegistrations) = 2
          /\ ViewRegistrations[1].tag = "active"
          /\ ViewRegistrations[2].tag = "finished "

(* C17, amended: every construction of a ProjectItem or ProjectList has    *)
(* called configure once and renderContent once; every construction of a   *)
(* ProjectInput has called configure once and renderContent not at all;    *)
(* each list has registered one listener, and once the script has run the  *)
(* store's first two registrations are the active list's and the finished  *)
(* list's, in that order, and no other registration is a list's.           *)
C17_LifecycleCalls ==
    /\ \A k \in {"ProjectItem", "ProjectList"} :
          /\ life[k].configure = life[k].constructed
          /\ life[k].renderContent = life[k].constructed
    /\ life["ProjectInput"].configure = life["ProjectInput"].constructed
    /\ life["ProjectInput"].renderContent = 0
    /\ Len(ViewRegistrations) = life["ProjectList"].constructed
    /\ pc = "run" =>
          /\ Len(ViewRegistrations) = 2
          /\ stores[projectState].listeners[1] = ViewRegistrations[1]
          /\ stores[projectState].listeners[2] = ViewRegistrations[2]
          /\ ViewRegistrations[1].tag = "active"
          /\ ViewRegistrations[2].tag = "finished "

(* The script has run, the form and the two lists are constructed, and an  *)
(* add has had an item constructed while a third registration exists.      *)
C17_Witness ==
    /\ pc = "run"
    /\ life["ProjectInput"].constructed = 1
    /\ life["ProjectInput"].configure = 1
    /\ life["ProjectList"].constructed = 2
    /\ life["ProjectItem"].constructed = 1
    /\ Len(stores[projectState].listeners) = 3

----------------------------------------------------------------------------
(* The registrations of store h that add number m had to invoke and did    *)
(* not                                                                     *)
Missed(m, h) ==
    {k \in 1..Len(stores[h].listeners) :
        /\ stores[h].listeners[k].regAt < m
        /\ \A c \in Range(CallsTo(h, k)) : c.add # m}

(* C18: when an add fails, its entity is the last of the collection, the   *)
(* registrations up to the one that failed were invoked once each, in      *)
(* order and with the entity in what they were given, and none after it    *)
(* was invoked; whatever a registration missed in an add is in what it is  *)
(* given by each later add, and the add that follows, if it returns,       *)
(* invokes it.                                                             *)
C18_FailureDuringNotification ==
    /\ (lastAdd.n > 0 /\ lastAdd.threw) =>
          LET h == lastAdd.store
              cs == CallsOf(lastAdd.n, h)
          IN  /\ StoreColl(h)[Len(StoreColl(h))] = lastAdd.ref
              /\ Len(cs) >= 1
              /\ \A j \in 1..Len(cs) :
                    /\ cs[j].idx = j
                    /\ cs[j].l = stores[h].listeners[j]
                    /\ lastAdd.ref \in Range(cs[j].got)
              /\ cs[Len(cs)].l.tag = "throw"
              /\ \A j \in 1..(Len(cs) - 1) : cs[j].l.tag # "throw"
              /\ \A k \in (Len(cs) + 1)..Len(stores[h].listeners) :
                    stores[h].listeners[k].regAt < lastAdd.n =>
                        k \in Missed(lastAdd.n, h)
    /\ \A h \in 1..Len(stores) :
          \A m \in 1..Len(heap) :
             \A k \in Missed(m, h) :
                /\ \A c \in Range(CallsTo(h, k)) : c.add > m => m \in Range(c.got)
                /\ (Returned /\ lastAdd.n = m + 1) =>
                      \E c \in Range(CallsTo(h, k)) : c.add = m + 1

(* The first add failed at the third registration, so the fourth was not   *)
(* invoked; the second add has returned and gave the fourth both entities. *)
C18_Witness ==
    /\ Returned
    /\ lastAdd.n = 2
    /\ Missed(1, lastAdd.store) = {4}
    /\ stores[lastAdd.store].listeners[3].tag = "throw"
    /\ Len(CallsTo(lastAdd.store, 4)) = 1
    /\ CallsTo(lastAdd.store, 4)[1].got = <<1, 2>>

----------------------------------------------------------------------------
(* C19: a registration made by a callback during the pass of an add that   *)
(* returns is in the store's list after the registrations that existed,    *)
(* and that same pass has invoked it once, after every registration before *)
(* it, with the entity of the add in what it was given.                    *)
C19_RegistrationDuringPass ==
    Returned =>
        LET h == lastAdd.store
            cs == CallsOf(lastAdd.n, h)
        IN  \A i \in 1..Len(stores[h].listeners) :
               stores[h].listeners[i].pass = lastAdd.n =>
                  /\ \A j \in 1..(i - 1) :
                        stores[h].listeners[j].regAt
                            <= stores[h].listeners[i].regAt
                  /\ Len(SelectSeq(cs, LAMBDA c : c.idx = i)) = 1
                  /\ Len(cs) >= i
                  /\ cs[i].idx = i
                  /\ \A j \in 1..(i - 1) : cs[j].idx = j
                  /\ lastAdd.ref \in Range(cs[i].got)

(* The third registration has registered a fourth during the first add,    *)
(* and the pass has gone on to invoke the fourth.                          *)
C19_Witness ==
    /\ Returned
    /\ lastAdd.n = 1
    /\ Len(stores[lastAdd.store].listeners) = 4
    /\ stores[lastAdd.store].listeners[3].tag = "register"
    /\ stores[lastAdd.store].listeners[4].pass = 1
    /\ Len(CallsOf(1, lastAdd.store)) = 4
    /\ CallsOf(1, lastAdd.store)[4].got = <<1>>

----------------------------------------------------------------------------
(* The template each class clones *)
TemplateOf ==
    [k \in Classes |-> CASE k = "ProjectInput" -> "project-input"
                         [] k = "ProjectList" -> "project-list"
                         [] k = "ProjectItem" -> "single-project"]

(* C15: a component is constructed only when its template and its host     *)
(* resolve; a construction that cannot resolve one of them fails to its    *)
(* caller (the script ends at that statement, the add that rendered the    *)
(* item fails) and leaves nothing behind: the children of "app" are the    *)
(* elements of the components constructed, the mounted lists and the       *)
(* lists' registrations are as many as the lists constructed, and a list   *)
(* shows no item that was not constructed.                                 *)
C15_ResolutionAborts ==
    /\ \A k \in Classes :
          life[k].constructed > 0 =>
              (TemplateOf[k] \in dom.templates /\ dom.hasApp)
    /\ pc \in {"line334", "line335", "run"} =>
          life["ProjectInput"].constructed = 1
    /\ pc = "line335" => life["ProjectList"].constructed = 1
    /\ pc = "run" => life["ProjectList"].constructed = 2
    /\ pc = "crashed" =>
          ~(dom.hasApp /\ {"project-input", "project-list"} \subseteq dom.templates)
    /\ Len(dom.app)
          = life["ProjectInput"].constructed + life["ProjectList"].constructed
    /\ Cardinality({t \in ViewTypes : views[t].constructed})
          = life["ProjectList"].constructed
    /\ Len(ViewRegistrations) = life["ProjectList"].constructed
    /\ Len(views["active"].rendered) + Len(views["finished "].rendered)
          <= life["ProjectItem"].constructed
    /\ (lastAdd.n > 0 /\ "single-project" \notin dom.templates) =>
          /\ lastAdd.threw
          /\ \A t \in ViewTypes : views[t].rendered = <<>>

(* The form was mounted, the template of the lists is missing: the script  *)
(* has ended at the construction of the active list, "app" holds the form  *)
(* alone and the store has no registration.                                *)
C15_Witness ==
    /\ pc = "crashed"
    /\ "project-list" \notin dom.templates
    /\ life["ProjectInput"].constructed = 1
    /\ life["ProjectList"].constructed = 0
    /\ dom.app = <<"user-input">>
    /\ stores[projectState].listeners = <<>>
    /\ \A t \in ViewTypes : ~views[t].constructed

====
